---- MODULE Spec2Model ----
(***************************************************************************)
(* Model of server/main.py: the transcription agent.  One asyncio event    *)
(* loop runs                                                               *)
(*   - one _forward_transcription task per subscribed audio track,         *)
(*   - one Translator.translate task per (final segment, translator),      *)
(*   - the synchronous room callbacks on_track_subscribed and              *)
(*     on_attributes_changed.                                              *)
(* A step of the model is what one task or callback does between two       *)
(* suspension points (await), or one answer of an external collaborator    *)
(* (recognizer, translation backend, caption publisher).                   *)
(***************************************************************************)
EXTENDS Integers, Sequences, FiniteSets, TLC

(* ---------------------------------------------------------------- bounds *)
\* number of events the recognizers emit over the session, all tracks together
MaxEvents == 2

\* sids of the tracks of the room
Tracks == {"TR_a", "TR_b"}

(* ----------------------------------------------------- language catalog *)
None == "None"

\* languages: code -> display name (main.py 33-39)
languages ==
    [c \in {"en", "es", "fr", "de", "ja"} |->
        CASE c = "en" -> "English"
          [] c = "es" -> "Spanish"
          [] c = "fr" -> "French"
          [] c = "de" -> "German"
          [] c = "ja" -> "Japanese"]

\* LanguageCode: the Enum whose member names are the catalog codes and whose
\* values are the display names; LanguageCode[x] raises KeyError off the names.
LanguageCode == DOMAIN languages

\* a lookup that validates nothing: any string names a member
LanguageCodeLookupAny(code) ==
    [ok |-> TRUE, name |-> code,
     value |-> IF code \in LanguageCode THEN languages[code] ELSE code]

LanguageCodeLookup(code) ==
    IF code \in LanguageCode
    THEN [ok |-> TRUE, name |-> code, value |-> languages[code]]
    ELSE [ok |-> FALSE, name |-> code, value |-> "KeyError"]

\* values of attrs.get("captions_language") the participants send: two valid
\* codes, the default, a code off the catalog, the empty string, and None
\* for a notification without the key
Requested == {"es", "fr", "en", "xx", "", None}

\* the text the recognizer produces for its n-th event
Utterance(n) == IF n % 2 = 1 THEN "hello" ELSE "bye"

\* track kinds of on_track_subscribed
Kinds == {"audio", "video"}

(* ------------------------------------------------------------ sequences *)
RECURSIVE LStrip(_)
LStrip(s) == IF s # <<>> /\ Head(s) = " " THEN LStrip(Tail(s)) ELSE s

RECURSIVE RStrip(_)
RStrip(s) ==
    IF s # <<>> /\ s[Len(s)] = " " THEN RStrip(SubSeq(s, 1, Len(s) - 1)) ELSE s

\* str.strip() on a text held as a sequence of tokens
Strip(s) == RStrip(LStrip(s))

(* ---------------------------------------------------------------- state *)
VARIABLES
    translators,   \* the dict of entrypoint: sequence of entries, insertion order
    constructed,   \* code -> number of Translator objects constructed for it
    pc,            \* track -> position of its _forward_transcription task
    stream,        \* track -> events queued in its stt_stream, oldest first
    cur,           \* track -> the final event the task is working on
    emitted,       \* number of events the recognizers have emitted
    jobs,          \* the translate tasks, in creation order
    calls,         \* caption language -> the publish_transcription calls, in call order
    dispatched,    \* ids of the finals whose dispatch loop has run
    lastlog,       \* the latest record on_attributes_changed gave the logger
    late_frames,   \* tracks whose stt_stream got a frame after it had failed
    produced       \* the kinds of the events emitted so far, in emission order

vars == <<translators, constructed, pc, stream, cur, emitted, jobs, calls, dispatched, lastlog, late_frames, produced>>

\* language tags a caption can carry
Channels == LanguageCode \cup (Requested \ {None})

NoLog == [level |-> "none", lang |-> None]

NoEvent == [type |-> "none", id |-> 0, text |-> ""]

Init ==
    /\ translators = <<>>
    /\ constructed = [c \in Requested |-> 0]
    /\ pc = [t \in Tracks |-> "unsubscribed"]
    /\ stream = [t \in Tracks |-> <<>>]
    /\ cur = [t \in Tracks |-> NoEvent]
    /\ emitted = 0
    /\ jobs = <<>>
    /\ calls = [c \in Channels |-> <<>>]
    /\ dispatched = {}
    /\ lastlog = NoLog
    /\ late_frames = {}
    /\ produced = <<>>

\* keys of the dict
PoolCodes == {translators[i].code : i \in DOMAIN translators}

(* ------------------------------------------------- on_track_subscribed *)
\* an audio track starts transcribe_track, which opens the stt stream and
\* spawns _forward_transcription; for another kind the callback does nothing
on_track_subscribed(t, kind) ==
    /\ pc[t] = "unsubscribed"
    /\ IF kind = "audio"
       THEN pc' = [pc EXCEPT ![t] = "waiting"]
       ELSE UNCHANGED pc
    /\ UNCHANGED <<translators, constructed, stream, cur, emitted, jobs, calls, dispatched, lastlog, late_frames, produced>>

(* ---------------------------------------------------------- recognizer *)
\* what the recognizer of a track may emit next: interim and final
\* transcripts, or the failure of the stream
EventKinds == {"interim", "final", "error"}

StreamClosed(t) == stream[t] # <<>> /\ stream[t][Len(stream[t])].type = "error"

\* the recognizer of track t emits an event into stt_stream; the event's id
\* is its global emission number, so on one track ids grow with arrival
stt_emit(t, kind) ==
    /\ pc[t] \notin {"unsubscribed", "stt_failed"}
    /\ ~StreamClosed(t)
    /\ emitted < MaxEvents
    /\ emitted' = emitted + 1
    /\ stream' = [stream EXCEPT ![t] =
                     Append(@, [type |-> kind, id |-> emitted + 1,
                                 text |-> Utterance(emitted + 1)])]
    /\ produced' = Append(produced, kind)
    /\ UNCHANGED <<translators, constructed, pc, cur, jobs, calls, dispatched, lastlog, late_frames>>

(* ------------------------------------------------------ transcribe_track *)
\* async for ev in audio_stream (lines 121-122): the loop runs from the
\* subscription on; nothing ties it to the forwarding task, whose end it
\* neither sees nor awaits
AudioLoopRuns(t) == pc[t] # "unsubscribed"

\* stt_stream.push_frame(ev.frame): the frames pushed while the stream works
\* are what the recognizer turns into events (stt_emit); a frame pushed after
\* the stream has failed is recorded
push_frame(t) ==
    /\ AudioLoopRuns(t)
    /\ late_frames' = IF pc[t] = "stt_failed" THEN late_frames \cup {t} ELSE late_frames
    /\ UNCHANGED <<translators, constructed, pc, stream, cur, emitted, jobs, calls,
                   dispatched, lastlog, produced>>

(* ------------------------------------------------ _forward_transcription *)
\* a loop that awaits each translation instead of spawning it: it takes the
\* next event only when no translation of its track is under way
ReadyAfterTranslations(t) ==
    /\ pc[t] = "waiting"
    /\ \A j \in DOMAIN jobs : jobs[j].track = t => jobs[j].st # "calling"

\* the task is suspended in the async for at line 90 and takes the next
\* event as soon as the stream has one
Ready(t) == pc[t] = "waiting"

\* a stream that hands out its newest event first
PopEventNewest(s) == <<s[Len(s)], SubSeq(s, 1, Len(s) - 1)>>

\* async for ev in stt_stream: the event taken and the events left
PopEvent(s) == <<Head(s), Tail(s)>>

\* a test that takes interim transcripts for final ones
IsFinalOrInterim(ev) == ev.type \in {"final", "interim"}

\* elif ev.type == stt.SpeechEventType.FINAL_TRANSCRIPT
IsFinal(ev) == ev.type = "final"

\* INTERIM_TRANSCRIPT: printed, nothing else
forward_interim(t) ==
    /\ Ready(t)
    /\ stream[t] # <<>>
    /\ PopEvent(stream[t])[1].type = "interim"
    /\ stream' = [stream EXCEPT ![t] = PopEvent(@)[2]]
    /\ UNCHANGED <<translators, constructed, pc, cur, emitted, jobs, calls, dispatched, lastlog, late_frames, produced>>

\* the Transcription built at lines 98-108
OriginalCall(t, ev) ==
    [kind |-> "original", seg |-> ev.id, track |-> t, language |-> "en",
     text |-> ev.text, final |-> TRUE, st |-> "pending", job |-> 0]

\* FINAL_TRANSCRIPT: build the segment, call publish_transcription, suspend
forward_final(t) ==
    /\ Ready(t)
    /\ stream[t] # <<>>
    /\ IsFinal(PopEvent(stream[t])[1])
    /\ stream' = [stream EXCEPT ![t] = PopEvent(@)[2]]
    /\ cur' = [cur EXCEPT ![t] = PopEvent(stream[t])[1]]
    /\ calls' = [calls EXCEPT !["en"] = Append(@, OriginalCall(t, PopEvent(stream[t])[1]))]
    /\ pc' = [pc EXCEPT ![t] = "publishing"]
    /\ UNCHANGED <<translators, constructed, emitted, jobs, dispatched, lastlog, late_frames, produced>>

\* the stream raises: the exception leaves the async for, the task ends
forward_error(t) ==
    /\ Ready(t)
    /\ stream[t] # <<>>
    /\ PopEvent(stream[t])[1].type = "error"
    /\ stream' = [stream EXCEPT ![t] = PopEvent(@)[2]]
    /\ pc' = [pc EXCEPT ![t] = "stt_failed"]
    /\ UNCHANGED <<translators, constructed, cur, emitted, jobs, calls, dispatched, lastlog, late_frames, produced>>

\* index in calls of the pending original publish of track t
PendingOriginal(t) ==
    CHOOSE i \in DOMAIN calls["en"] :
        /\ calls["en"][i].kind = "original"
        /\ calls["en"][i].track = t
        /\ calls["en"][i].st = "pending"

\* the publisher answers the original publish: the await at line 109 is
\* resolved and the task is ready to run on
publish_original_ok(t) ==
    /\ pc[t] = "publishing"
    /\ calls' = [calls EXCEPT !["en"][PendingOriginal(t)].st = "ok"]
    /\ pc' = [pc EXCEPT ![t] = "dispatch"]
    /\ UNCHANGED <<translators, constructed, stream, cur, emitted, jobs, dispatched, lastlog, late_frames, produced>>

\* an exception of the publish that is swallowed: the task goes on to the
\* dispatch loop
PublishErrorSwallowed == "dispatch"

\* where the task is after publish_transcription raised at line 109: nothing
\* catches the exception, it leaves the async for and ends the task
PublishErrorRaised == "publish_failed"

publish_original_fail(t) ==
    /\ pc[t] = "publishing"
    /\ calls' = [calls EXCEPT !["en"][PendingOriginal(t)].st = "failed"]
    /\ pc' = [pc EXCEPT ![t] = PublishErrorRaised]
    /\ cur' = [cur EXCEPT ![t] = IF PublishErrorRaised = "publish_failed" THEN NoEvent ELSE @]
    /\ UNCHANGED <<translators, constructed, stream, emitted, jobs, dispatched, lastlog, late_frames, produced>>

\* create_task after the loop instead of inside it: only the last translator
\* of the dict gets a task
NewJobsLastOnly(t, ev) ==
    IF translators = <<>> THEN <<>>
    ELSE <<[seg |-> ev.id, track |-> t, msg |-> ev.text,
            lang |-> translators[Len(translators)].code, st |-> "calling"]>>

\* a stale list of the translators, taken before the newest was registered
NewJobsStaleList(t, ev) ==
    [i \in 1..(Len(translators) - 1) |->
        [seg |-> ev.id, track |-> t, msg |-> ev.text,
         lang |-> translators[i].code, st |-> "calling"]]

\* for translator in translators.values(): create_task(translate(message, track))
\* one task per entry of the dict, in the dict's order.  A new task runs up
\* to its first await, the run_in_executor at line 64, before anything it
\* reads can change (message, track and the translator are bound at
\* creation), so a task is created with its backend call under way.
NewJobs(t, ev) ==
    [i \in 1..Len(translators) |->
        [seg |-> ev.id, track |-> t, msg |-> ev.text,
         lang |-> translators[i].code, st |-> "calling"]]

\* a loop that is left after the first final transcript it dispatched
AfterDispatchReturns == "returned"

\* where the task is after the dispatch loop: back in the async for at line
\* 90, waiting for the next event
AfterDispatch == "waiting"

\* the task resumes after the publish and runs the dispatch loop, which has
\* no suspension point; create_task returns at once and the task goes back
\* to the async for
forward_dispatch(t) ==
    /\ pc[t] = "dispatch"
    /\ jobs' = jobs \o NewJobs(t, cur[t])
    /\ dispatched' = dispatched \cup {cur[t].id}
    /\ pc' = [pc EXCEPT ![t] = AfterDispatch]
    /\ cur' = [cur EXCEPT ![t] = NoEvent]
    /\ UNCHANGED <<translators, constructed, stream, emitted, calls, lastlog, late_frames, produced>>

(* ------------------------------------------------- on_attributes_changed *)
\* the condition without its membership test
ShouldCreateNoMembership(lang) ==
    /\ lang # None
    /\ lang # ""
    /\ lang # "en"

\* the condition without its test for the default language
ShouldCreateDefaultToo(lang) ==
    /\ lang # None
    /\ lang # ""
    /\ lang \notin PoolCodes

\* if lang and lang != "en" and lang not in translators
ShouldCreate(lang) ==
    /\ lang # None
    /\ lang # ""
    /\ lang # "en"
    /\ lang \notin PoolCodes

\* Translator(job.room, LanguageCode[lang]): the object constructed for an
\* enum member; `since` records the finals dispatched before it existed
NewTranslator(member) ==
    [code |-> member.name, value |-> member.value,
     id |-> constructed[member.name] + 1, since |-> dispatched]

\* translators = {lang: entry}: the dict rebuilt around the new entry
DictReset(d, entry) == <<entry>>

\* translators[lang] = entry: a new key goes last, a present key keeps its
\* place and gets the new value
DictSet(d, entry) ==
    IF \E i \in DOMAIN d : d[i].code = entry.code
    THEN [i \in DOMAIN d |-> IF d[i].code = entry.code THEN entry ELSE d[i]]
    ELSE Append(d, entry)

\* the callback runs to its end without a suspension point; the KeyError of
\* LanguageCode[lang] is raised before anything is constructed or assigned,
\* and is caught and logged as a warning
on_attributes_changed(lang) ==
    /\ IF ShouldCreate(lang)
       THEN IF LanguageCodeLookup(lang).ok
            THEN /\ translators' = DictSet(translators, NewTranslator(LanguageCodeLookup(lang)))
                 /\ constructed' = [constructed EXCEPT ![lang] = @ + 1]
                 /\ lastlog' = [level |-> "info", lang |-> lang]
            ELSE /\ lastlog' = [level |-> "warning", lang |-> lang]
                 /\ UNCHANGED <<translators, constructed>>
       ELSE UNCHANGED <<translators, constructed, lastlog>>
    /\ UNCHANGED <<pc, stream, cur, emitted, jobs, calls, dispatched, late_frames, produced>>

(* --------------------------------------------------- Translator.translate *)
\* a task that looks its translator up when it runs (the loop variable
\* captured late): it finds the dict's latest entry
WorkerLateBound(job) == translators[Len(translators)]

\* the Translator a translate task is bound to: the bound method handed to
\* create_task at line 113 keeps the object of that iteration
Worker(job) ==
    CHOOSE w \in {translators[i] : i \in DOMAIN translators} : w.code = job.lang

\* paddings the backend may put around its answer
Pads == {<<>>, <<" ">>}

\* response.text of generate_content for the worker's prompt and the message
Response(w, message, pad) == pad \o <<w.value, message>> \o pad

\* a segment tagged with the display name (lang.value) instead of the code
TranslatedCallTaggedByValue(j, translated) ==
    [kind |-> "translated", seg |-> jobs[j].seg, track |-> jobs[j].track,
     language |-> Worker(jobs[j]).value, text |-> translated, final |-> TRUE,
     st |-> "sent", job |-> j]

\* the Transcription built at lines 66-78 and handed to publish_transcription
TranslatedCall(j, translated) ==
    [kind |-> "translated", seg |-> jobs[j].seg, track |-> jobs[j].track,
     language |-> Worker(jobs[j]).code, text |-> translated, final |-> TRUE,
     st |-> "sent", job |-> j]

\* the executor call returns: the task builds the segment and calls
\* publish_transcription.  Whatever the publisher answers, the task then ends
\* (after the print at line 80, or with the exception), so the answer leaves
\* no trace in the state and the call and the end of the task are one step.
translate_return(j, pad) ==
    /\ j \in DOMAIN jobs
    /\ jobs[j].st = "calling"
    /\ jobs' = [jobs EXCEPT ![j].st = "done"]
    /\ calls' = [calls EXCEPT ![Worker(jobs[j]).code] = Append(@,
          TranslatedCall(j, Strip(Response(Worker(jobs[j]), jobs[j].msg, pad))))]
    /\ UNCHANGED <<translators, constructed, pc, stream, cur, emitted, dispatched, lastlog, late_frames, produced>>

\* a failure that takes the translator's other running tasks down with it
TranslateFailedKillsWorker(j) ==
    [k \in DOMAIN jobs |->
        IF jobs[k].lang = jobs[j].lang /\ jobs[k].st = "calling"
        THEN [jobs[k] EXCEPT !.st = "call_failed"]
        ELSE jobs[k]]

\* the jobs after the backend call of job j raised: the exception ends that
\* task and no other
TranslateFailed(j) == [jobs EXCEPT ![j].st = "call_failed"]

\* a task that falls back to publishing the untranslated message when its
\* backend call raised
PublishedOnFailureFallback(j) ==
    [calls EXCEPT ![jobs[j].lang] = Append(@,
        [kind |-> "translated", seg |-> jobs[j].seg, track |-> jobs[j].track,
         language |-> jobs[j].lang, text |-> <<languages[jobs[j].lang], jobs[j].msg>>,
         final |-> TRUE, st |-> "sent", job |-> j])]

\* the publish calls after the backend call of job j raised: the await at
\* line 64 is not guarded, so lines 66-80 are not reached and nothing is
\* published
PublishedOnFailure(j) == calls

translate_fail(j) ==
    /\ j \in DOMAIN jobs
    /\ jobs[j].st = "calling"
    /\ jobs' = TranslateFailed(j)
    /\ calls' = PublishedOnFailure(j)
    /\ UNCHANGED <<translators, constructed, pc, stream, cur, emitted, dispatched, lastlog, late_frames, produced>>

(* -------------------------------------------------------- specification *)
\* the most translate tasks a session of MaxEvents finals can create
JobIds == 1..(MaxEvents * Cardinality(LanguageCode))

Next ==
    \/ \E t \in Tracks, kind \in Kinds : on_track_subscribed(t, kind)
    \/ \E t \in Tracks, kind \in EventKinds : stt_emit(t, kind)
    \/ \E t \in Tracks : push_frame(t)
    \/ \E t \in Tracks : forward_interim(t)
    \/ \E t \in Tracks : forward_final(t)
    \/ \E t \in Tracks : forward_error(t)
    \/ \E t \in Tracks : publish_original_ok(t)
    \/ \E t \in Tracks : publish_original_fail(t)
    \/ \E t \in Tracks : forward_dispatch(t)
    \/ \E lang \in Requested : on_attributes_changed(lang)
    \/ \E j \in JobIds, pad \in Pads : translate_return(j, pad)
    \/ \E j \in JobIds : translate_fail(j)

Spec == Init /\ [][Next]_vars

\* the steps of a session in which the backend and the publisher answer
\* every call successfully: no publish_transcription and no generate_content
\* call raises
AnsweredNext ==
    \/ \E t \in Tracks, kind \in Kinds : on_track_subscribed(t, kind)
    \/ \E t \in Tracks, kind \in EventKinds : stt_emit(t, kind)
    \/ \E t \in Tracks : push_frame(t)
    \/ \E t \in Tracks : forward_interim(t)
    \/ \E t \in Tracks : forward_final(t)
    \/ \E t \in Tracks : forward_error(t)
    \/ \E t \in Tracks : publish_original_ok(t)
    \/ \E t \in Tracks : forward_dispatch(t)
    \/ \E lang \in Requested : on_attributes_changed(lang)
    \/ \E j \in JobIds, pad \in Pads : translate_return(j, pad)

\* the event loop runs every task that is ready: a forwarding task whose
\* stream has an event takes it, a task whose await was resolved runs on;
\* the publisher answers every original publish and the backend every call.
\* Nothing obliges a participant to speak, a track to be subscribed or a
\* preference to change.
FairSpec ==
    /\ Init
    /\ [][AnsweredNext]_vars
    /\ \A t \in Tracks :
          /\ WF_vars(forward_interim(t))
          /\ WF_vars(forward_final(t))
          /\ WF_vars(forward_error(t))
          /\ WF_vars(publish_original_ok(t))
          /\ WF_vars(forward_dispatch(t))
    /\ \A j \in JobIds : WF_vars(\E pad \in Pads : translate_return(j, pad))

(* ------------------------------------------------------------- helpers *)
\* the registered translator for a code
Entry(code) ==
    CHOOSE w \in {translators[i] : i \in DOMAIN translators} : w.code = code

\* the translate tasks created for a segment and a language
JobsFor(seg, code) ==
    {j \in DOMAIN jobs : jobs[j].seg = seg /\ jobs[j].lang = code}

\* the translate tasks of a language whose backend call is under way
InFlight(code) ==
    {j \in DOMAIN jobs : jobs[j].lang = code /\ jobs[j].st = "calling"}

\* the target languages: every caption language but the original's
Targets == Channels \ {"en"}

(* ------------------------------------------------------------------ C1 *)
\* C1: per language, the translated captions are published in the order
\* their segments were dispatched to the translator (the order of the
\* translate tasks): a later task's caption never precedes an earlier one's.
PerLanguageOrder ==
    \A c \in Targets : \A i, k \in DOMAIN calls[c] :
        i < k => calls[c][i].job < calls[c][k].job

(* ------------------------------------------------------------------ C2 *)
\* C2: each translator has at most one translation call in flight.
OneCallInFlight == \A c \in Targets : Cardinality(InFlight(c)) <= 1

(* ------------------------------------------------------------------ C3 *)
\* the publish calls made for the original caption of a segment
OriginalCallsFor(seg) ==
    {i \in DOMAIN calls["en"] :
        calls["en"][i].kind = "original" /\ calls["en"][i].seg = seg}

\* the translator for a code was in the pool when the segment was dispatched
InPoolAtDispatch(code, seg) ==
    code \in PoolCodes /\ seg \notin Entry(code).since

\* C3: every final taken from a stream gets exactly one publish call for
\* its original caption, carrying the recognizer's text; once that publish
\* succeeded and the segment is dispatched there is exactly one translate
\* task per translator that was in the pool at dispatch, and none for any
\* other language; before the dispatch there is none at all.
ExactlyOncePerFinal ==
    /\ \A seg \in 1..emitted :
          /\ Cardinality(OriginalCallsFor(seg)) <= 1
          /\ \A i \in OriginalCallsFor(seg) : calls["en"][i].text = Utterance(seg)
    /\ \A t \in Tracks :
          pc[t] \in {"publishing", "dispatch"} =>
              Cardinality(OriginalCallsFor(cur[t].id)) = 1
    /\ \A seg \in dispatched :
          /\ Cardinality(OriginalCallsFor(seg)) = 1
          /\ \A i \in OriginalCallsFor(seg) : calls["en"][i].st = "ok"
          /\ \A c \in Targets :
                Cardinality(JobsFor(seg, c)) = IF InPoolAtDispatch(c, seg) THEN 1 ELSE 0
    /\ \A seg \in (1..emitted) \ dispatched :
          \A c \in Targets : JobsFor(seg, c) = {}

\* a dispatched final with two translators in the pool: two tasks, one each
C3Witness ==
    \E seg \in dispatched :
        /\ Cardinality({c \in Targets : InPoolAtDispatch(c, seg)}) = 2
        /\ Cardinality({j \in DOMAIN jobs : jobs[j].seg = seg}) = 2

(* ------------------------------------------------------------------ C4 *)
\* C4: whatever notifications arrive, a code has at most one entry in the
\* pool, exactly one Translator was ever constructed for a code in the pool
\* (the entry is that first object), and none for a code outside it.
IdempotentCreation ==
    /\ \A c \in Requested :
          /\ Cardinality({i \in DOMAIN translators : translators[i].code = c}) <= 1
          /\ constructed[c] = IF c \in PoolCodes THEN 1 ELSE 0
    /\ \A i \in DOMAIN translators : translators[i].id = 1

\* es is active with a task under way, and a further notification naming es
\* can arrive and changes nothing
C4Witness ==
    /\ "es" \in PoolCodes
    /\ InFlight("es") # {}
    /\ ENABLED (on_attributes_changed("es") /\ UNCHANGED vars)

(* ------------------------------------------------------------------ C5 *)
\* a step that logs the warning for an unsupported code
Rejects == lastlog' # lastlog /\ lastlog'.level = "warning"

\* C5: every key of the pool is a catalog code and nothing is constructed
\* for a code off the catalog; the step that rejects a code leaves the pool
\* and every task as they were and ends in the logged warning.
UnknownCodeSafety ==
    /\ [](/\ PoolCodes \subseteq LanguageCode
          /\ \A c \in Requested \ LanguageCode : constructed[c] = 0)
    /\ [][Rejects =>
            /\ lastlog'.lang \notin LanguageCode
            /\ UNCHANGED <<translators, constructed, pc, stream, cur, emitted,
                           jobs, calls, dispatched, late_frames, produced>>]_vars

\* "xx" was rejected last, with a translator in the pool
C5Witness ==
    /\ lastlog = [level |-> "warning", lang |-> "xx"]
    /\ translators # <<>>
    /\ "xx" \notin PoolCodes

(* ------------------------------------------------------------------ C6 *)
\* C6: a translator gets no task and publishes no caption for a segment
\* dispatched before the translator was created.
NoRetroactive ==
    \A c \in PoolCodes : \A seg \in Entry(c).since :
        /\ JobsFor(seg, c) = {}
        /\ \A i \in DOMAIN calls[c] : calls[c][i].seg # seg

\* a translator created after one dispatch has published a later segment
C6Witness ==
    \E c \in PoolCodes :
        /\ Entry(c).since # {}
        /\ calls[c] # <<>>

(* ------------------------------------------------------------------ C7 *)
\* the backend call of task j fails in this step
FailureStep(j) ==
    /\ j \in DOMAIN jobs
    /\ jobs[j].st = "calling"
    /\ jobs'[j].st = "call_failed"

\* C7: the step in which a translation call fails changes that one task
\* and nothing else (no other task of any language, no caption, no track, not
\* the pool); and once a task of language L has failed, L is still in the
\* pool, every segment dispatched while L was in the pool has its task on L,
\* and every task still under way can return and publish.
LanguageIsolation ==
    /\ [](\A j \in DOMAIN jobs :
            jobs[j].st = "call_failed" =>
                /\ jobs[j].lang \in PoolCodes
                /\ \A seg \in dispatched :
                      InPoolAtDispatch(jobs[j].lang, seg) =>
                          JobsFor(seg, jobs[j].lang) # {}
                /\ \A k \in DOMAIN jobs :
                      jobs[k].st = "calling" => ENABLED translate_return(k, <<>>))
    /\ [][\A j \in DOMAIN jobs :
            FailureStep(j) =>
                /\ DOMAIN jobs' = DOMAIN jobs
                /\ \A k \in DOMAIN jobs \ {j} : jobs'[k] = jobs[k]
                /\ UNCHANGED <<translators, constructed, pc, stream, cur, emitted,
                               calls, dispatched, lastlog, late_frames, produced>>]_vars

\* the call for (Si, L) failed; a later segment's caption on L and Si's
\* caption on another language were published, and the track goes on
C7Witness ==
    \E j, k, m \in DOMAIN jobs :
        /\ jobs[j].st = "call_failed"
        /\ jobs[k].lang = jobs[j].lang
        /\ jobs[k].seg > jobs[j].seg
        /\ jobs[k].st = "done"
        /\ jobs[m].seg = jobs[j].seg
        /\ jobs[m].lang # jobs[j].lang
        /\ jobs[m].st = "done"
        /\ pc[jobs[j].track] = "waiting"

(* ------------------------------------------------------------------ C8 *)
\* the original publishes of track t that the publisher rejected
RejectedOriginals(t) ==
    {i \in DOMAIN calls["en"] :
        calls["en"][i].track = t /\ calls["en"][i].st = "failed"}

\* C8: a rejected original publish does not end the track's forwarding
\* loop: the task is still in the loop (or was ended by its recognizer).
PublishFailureKeepsLoop ==
    \A t \in Tracks :
        RejectedOriginals(t) # {} =>
            pc[t] \in {"waiting", "publishing", "dispatch", "stt_failed"}

(* ------------------------------------------------------------------ C9 *)
\* C9: whatever translations are under way, a forwarding task that has an
\* event waiting in its stream can take it, one that waits for the original
\* publish can go on when the publisher answers, and one that was answered
\* can dispatch: no step of the loop waits for a translate task.
NonBlockingDispatch ==
    \A t \in Tracks :
        /\ (pc[t] = "waiting" /\ stream[t] # <<>>) =>
               ENABLED (forward_interim(t) \/ forward_final(t) \/ forward_error(t))
        /\ pc[t] = "publishing" => ENABLED publish_original_ok(t)
        /\ pc[t] = "dispatch" => ENABLED forward_dispatch(t)

\* a translation call that has not returned, for two translators, while the
\* original caption of a later final of the same track is published
C9Witness ==
    \E j, k \in DOMAIN jobs : \E i \in DOMAIN calls["en"] :
        /\ jobs[j].st = "calling"
        /\ jobs[k].st = "calling"
        /\ jobs[j].seg = jobs[k].seg
        /\ jobs[j].lang # jobs[k].lang
        /\ calls["en"][i].track = jobs[j].track
        /\ calls["en"][i].seg > jobs[j].seg
        /\ calls["en"][i].st = "ok"

(* ----------------------------------------------------------------- C10 *)
\* C10: the original captions of one track are published in the order its
\* finals arrived, and a later one is handed to the publisher only after
\* the publisher has answered the earlier one.
OriginalOrder ==
    \A i, k \in DOMAIN calls["en"] :
        (i < k /\ calls["en"][i].track = calls["en"][k].track) =>
            /\ calls["en"][i].seg < calls["en"][k].seg
            /\ calls["en"][i].st # "pending"

\* two finals of one track, both published
C10Witness ==
    \E i, k \in DOMAIN calls["en"] :
        /\ i < k
        /\ calls["en"][i].track = calls["en"][k].track
        /\ calls["en"][i].st = "ok"
        /\ calls["en"][k].st = "ok"

(* ----------------------------------------------------------------- C11 *)
\* C11: once the recognizer stream of a track has failed, no further audio
\* frame is pushed to that stream.
NoFramesAfterStreamFailure ==
    \A t \in Tracks : pc[t] = "stt_failed" => t \notin late_frames

(* ----------------------------------------------------------------- C12 *)
\* the values of captions_language that ask for no translator
NoRequest == {"en", "", None}

\* C12: the pool never holds the default language and nothing is constructed
\* for "en", an empty value or a missing key; the pool is empty until a
\* preference change has added a translator, and the only step that changes
\* the pool is the preference change that appends one new, non-default code.
NoDefaultWorker ==
    /\ [](/\ PoolCodes \cap NoRequest = {}
          /\ \A c \in NoRequest : constructed[c] = 0
          /\ (translators # <<>> => lastlog.level # "none"))
    /\ [][translators' # translators =>
            /\ lastlog' = [level |-> "info", lang |-> translators'[Len(translators')].code]
            /\ lastlog'.lang \notin NoRequest \cup PoolCodes
            /\ SubSeq(translators', 1, Len(translators)) = translators
            /\ Len(translators') = Len(translators) + 1]_vars

\* with a translator in the pool, notifications naming "en", an empty value
\* or no key can arrive, and each leaves everything as it is
C12Witness ==
    /\ translators # <<>>
    /\ \A c \in NoRequest : ENABLED (on_attributes_changed(c) /\ UNCHANGED vars)

(* ----------------------------------------------------------------- C13 *)
\* ids of the events the recognizers emitted as final transcripts
FinalIds == {n \in DOMAIN produced : produced[n] = "final"}

\* ids of the events still queued in a stream
Queued == UNION {{stream[t][i].id : i \in DOMAIN stream[t]} : t \in Tracks}

\* the forwarding task of track t takes an interim transcript in this step
TakesInterim(t) ==
    /\ pc[t] = "waiting"
    /\ stream[t] # <<>>
    /\ Head(stream[t]).type = "interim"
    /\ stream'[t] # stream[t]

\* C13: every publish call, original or translated, and every translate
\* task is for an event the recognizer emitted as final; the step that takes
\* an interim transcript makes no publish call and creates no task.
OnlyFinals ==
    /\ [](/\ \A c \in Channels : \A i \in DOMAIN calls[c] : calls[c][i].seg \in FinalIds
          /\ \A j \in DOMAIN jobs : jobs[j].seg \in FinalIds
          /\ \A t \in Tracks : cur[t] # NoEvent => cur[t].id \in FinalIds)
    /\ [][\A t \in Tracks : TakesInterim(t) => UNCHANGED <<calls, jobs, pc, cur>>]_vars

\* an interim transcript was taken and left no caption, the final after it
\* was published and translated
C13Witness ==
    \E n \in DOMAIN produced :
        /\ produced[n] = "interim"
        /\ n \notin Queued
        /\ \E i \in DOMAIN calls["en"] :
              calls["en"][i].seg > n /\ calls["en"][i].st = "ok"
        /\ \E c \in Targets : calls[c] # <<>>
        /\ \A c \in Channels : \A i \in DOMAIN calls[c] : calls[c][i].seg # n

(* ----------------------------------------------------------------- C14 *)
\* the publish calls a translate task has made
CallsOfJob(j) ==
    {<<c, i>> \in Channels \X (1..Len(jobs)) :
        i \in DOMAIN calls[c] /\ calls[c][i].kind = "translated" /\ calls[c][i].job = j}

\* C14: every caption published in a target language is a translated one,
\* marked final, tagged with the code of the translator of its task (a
\* catalog code other than "en"), carries the track of the final it
\* translates, and its text is the stripped answer of the backend for that
\* translator's language and that final's text; a finished task has made
\* exactly one such call and any other task none.
TranslatedCaptionShape ==
    /\ \A c \in Targets : \A i \in DOMAIN calls[c] :
          /\ calls[c][i].kind = "translated"
          /\ calls[c][i].final = TRUE
          /\ calls[c][i].language = c
          /\ c \in LanguageCode \ {"en"}
          /\ calls[c][i].job \in DOMAIN jobs
          /\ jobs[calls[c][i].job].lang = c
          /\ jobs[calls[c][i].job].seg = calls[c][i].seg
          /\ calls[c][i].text = <<languages[c], Utterance(calls[c][i].seg)>>
          /\ \E k \in OriginalCallsFor(calls[c][i].seg) :
                /\ calls["en"][k].track = calls[c][i].track
                /\ calls["en"][k].text = Utterance(calls[c][i].seg)
    /\ \A i \in DOMAIN calls["en"] : calls["en"][i].kind = "original"
    /\ \A j \in DOMAIN jobs :
          Cardinality(CallsOfJob(j)) = IF jobs[j].st = "done" THEN 1 ELSE 0

\* es and fr were active before the only final was spoken: one original
\* caption, one es caption and one fr caption
C14Witness ==
    /\ emitted = 1
    /\ {"es", "fr"} \subseteq PoolCodes
    /\ Entry("es").since = {} /\ Entry("fr").since = {}
    /\ Len(calls["en"]) = 1 /\ calls["en"][1].st = "ok"
    /\ Len(calls["es"]) = 1 /\ calls["es"][1].seg = 1
    /\ Len(calls["fr"]) = 1 /\ calls["fr"][1].seg = 1
    /\ calls["es"][1].text = <<"Spanish", "hello">>
    /\ calls["fr"][1].text = <<"French", "hello">>

(* ----------------------------------------------------------------- C15 *)
\* C15: no step removes or replaces an entry of the pool: every entry is in
\* the next state at the same place, the same object.
PoolOnlyGrows ==
    [][\A i \in DOMAIN translators :
          /\ i \in DOMAIN translators'
          /\ translators'[i] = translators[i]]_vars

\* es and fr are active and have translated a final; a participant can go
\* back to the default or switch from es to fr, and the pool stays
C15Witness ==
    /\ Len(translators) = 2
    /\ translators[1].code = "es" /\ translators[2].code = "fr"
    /\ calls["es"] # <<>> /\ calls["fr"] # <<>>
    /\ \E t \in Tracks : pc[t] = "waiting"
    /\ ENABLED (on_attributes_changed("en") /\ translators' = translators)
    /\ ENABLED (on_attributes_changed("fr") /\ translators' = translators)

(* ----------------------------------------------------------------- C16 *)
\* the original publish of a segment has succeeded
OriginalPublished(seg) ==
    \E k \in OriginalCallsFor(seg) : calls["en"][k].st = "ok"

\* C16: a translate task exists, and a translated caption is published,
\* only for a segment whose original publish has succeeded; a segment whose
\* original publish is pending or was rejected has no task.
OriginalBeforeTranslation ==
    /\ \A j \in DOMAIN jobs : OriginalPublished(jobs[j].seg)
    /\ \A c \in Targets : \A i \in DOMAIN calls[c] : OriginalPublished(calls[c][i].seg)
    /\ \A k \in DOMAIN calls["en"] :
          calls["en"][k].st # "ok" =>
              \A j \in DOMAIN jobs : jobs[j].seg # calls["en"][k].seg

\* a translator got the task of a published final, then the original
\* publish of the next final was rejected and no task was created for it
C16Witness ==
    \E i, k \in DOMAIN calls["en"] : \E c \in PoolCodes :
        /\ i < k
        /\ calls["en"][i].st = "ok"
        /\ calls["en"][k].st = "failed"
        /\ JobsFor(calls["en"][i].seg, c) # {}
        /\ JobsFor(calls["en"][k].seg, c) = {}
        /\ calls[c] # <<>>

(* ----------------------------------------------------------------- C17 *)
\* the forwarding task of track t runs its dispatch loop in this step
Dispatches(t) == pc[t] = "dispatch" /\ pc'[t] # "dispatch"

\* the finals whose original publish is awaited: taken from their stream and
\* not yet dispatched
InPublish == {cur[t].id : t \in {u \in Tracks : pc[u] \in {"publishing", "dispatch"}}}

\* C17: the dispatch loop is one step: it leaves the pool as it is and
\* creates the task of every entry the pool has in that step, in the pool's
\* order, and nothing else; a step that changes the pool creates no task and
\* moves no forwarding task, and the translator it registers counts the
\* finals whose original publish is awaited as still to come; so a
\* translator that does not count a dispatched final as earlier than itself
\* has exactly one task for it.
TargetsAtOneInstant ==
    /\ [](\A c \in PoolCodes : \A seg \in dispatched \ Entry(c).since :
            Cardinality(JobsFor(seg, c)) = 1)
    /\ [][\A t \in Tracks :
            Dispatches(t) =>
                /\ translators' = translators
                /\ Len(jobs') = Len(jobs) + Len(translators)
                /\ SubSeq(jobs', 1, Len(jobs)) = jobs
                /\ \A i \in DOMAIN translators :
                      /\ jobs'[Len(jobs) + i].lang = translators[i].code
                      /\ jobs'[Len(jobs) + i].seg = cur[t].id]_vars
    /\ [][translators' # translators =>
            /\ jobs' = jobs
            /\ pc' = pc
            /\ translators'[Len(translators')].since \cap InPublish = {}]_vars

\* the original calls are in the order the finals arrived.  Final A arrived
\* before final B; the translator was registered after B's dispatch (B is in
\* its `since`), so after A's arrival, and before A's dispatch: it was
\* registered while A's original publish was awaited, and it has published
\* its caption of A
C17Witness ==
    \E i, k \in DOMAIN calls["en"] : \E c \in PoolCodes :
        /\ i < k
        /\ calls["en"][k].seg \in Entry(c).since
        /\ calls["en"][i].seg \notin Entry(c).since
        /\ calls["en"][i].seg \in dispatched
        /\ \E n \in DOMAIN calls[c] : calls[c][n].seg = calls["en"][i].seg

(* ----------------------------------------------------------------- C18 *)
\* the translate tasks created for a language
JobsOf(c) == {j \in DOMAIN jobs : jobs[j].lang = c}

\* the translate tasks of a language whose backend call returned
ReturnedOf(c) == {j \in JobsOf(c) : jobs[j].st = "done"}

\* C18: in every target language there are exactly as many captions as
\* tasks whose backend call returned, hence never more than tasks created
\* for the language; no two captions come from the same task and none from a
\* task that is still calling or whose call failed; a caption is added only
\* by the step in which the backend call of its task returns, one caption
\* per step, and a task that ended never publishes afterwards.
AtMostOneCaptionPerJob ==
    /\ [](\A c \in Targets :
            /\ Len(calls[c]) = Cardinality(ReturnedOf(c))
            /\ Len(calls[c]) <= Cardinality(JobsOf(c))
            /\ \A i, k \in DOMAIN calls[c] :
                  calls[c][i].job = calls[c][k].job => i = k
            /\ \A i \in DOMAIN calls[c] : calls[c][i].job \in ReturnedOf(c))
    /\ [][\A c \in Targets :
            calls'[c] # calls[c] =>
                /\ Len(calls'[c]) = Len(calls[c]) + 1
                /\ SubSeq(calls'[c], 1, Len(calls[c])) = calls[c]
                /\ jobs[calls'[c][Len(calls'[c])].job].st = "calling"
                /\ jobs'[calls'[c][Len(calls'[c])].job].st = "done"]_vars
    /\ [][\A j \in DOMAIN jobs :
            jobs[j].st # "calling" =>
                /\ jobs'[j] = jobs[j]
                /\ \A c \in Targets : \A i \in DOMAIN calls'[c] :
                      calls'[c][i].job = j => i \in DOMAIN calls[c]]_vars

\* two tasks of one language: the backend call of one raised, the other
\* returned; the language has one caption, the one of the task that returned
C18Witness ==
    \E c \in Targets : \E j, k \in JobsOf(c) :
        /\ jobs[j].st = "call_failed"
        /\ jobs[k].st = "done"
        /\ Len(calls[c]) = 1
        /\ calls[c][1].job = k

(* ----------------------------------------------------------------- C19 *)
\* the translators that were in the pool when a dispatched final was
\* dispatched
PoolAtDispatch(seg) == {c \in PoolCodes : seg \notin Entry(c).since}

\* the original caption of the final is published, its dispatch loop has
\* run, and each translator of the pool at its dispatch has exactly one
\* caption of it in its language
Captioned(seg) ==
    /\ \E i \in DOMAIN calls["en"] :
          calls["en"][i].seg = seg /\ calls["en"][i].st = "ok"
    /\ seg \in dispatched
    /\ \A c \in PoolAtDispatch(seg) :
          Cardinality({i \in DOMAIN calls[c] : calls[c][i].seg = seg}) = 1

\* C19: when the tasks are scheduled fairly and the backend and the
\* publisher answer every call successfully, every final transcript a
\* recognizer emits leads to its original caption being published and to
\* exactly one caption in the language of each translator that is in the
\* pool when it is dispatched.
EveryFinalCaptioned ==
    \A seg \in 1..MaxEvents : (seg \in FinalIds) ~> Captioned(seg)

\* two finals were spoken with a translator in the pool at the dispatch of
\* both, and both have their original and their translated caption
C19Witness ==
    /\ Cardinality(FinalIds) >= 2
    /\ \A seg \in FinalIds : Captioned(seg) /\ PoolAtDispatch(seg) # {}

====
